---- MODULE Spec2Model ----
(***************************************************************************)
(* Model of src/etl.py: the batch job main() that runs process_song_data   *)
(* and then process_log_data against a shared output location.             *)
(*                                                                         *)
(* A DataFrame is a finite sequence of rows (a row is a record); the order *)
(* of the rows carries no meaning, only their multiplicity does.           *)
(* A nullable JSON value is <<>> (null) or <<v>>.  Durations are counted   *)
(* in units of 1e-5 s (209.60934 is 20960934) and millisecond timestamps   *)
(* are kept within 32 bits.                                                *)
(*                                                                         *)
(* Line 162 of src/etl.py is a comment placed inside a backslash           *)
(* continuation, so that CPython rejects line 163 (unexpected indent).     *)
(* The model follows the statement the continuation spells out: the        *)
(* select of lines 148-161 followed by the withColumn of line 163.         *)
(***************************************************************************)
EXTENDS Integers, Sequences, FiniteSets, TLC

\* ------------------------------------------------------------------ bounds
\* Total number of input records (catalog + activity) of one run.
MaxRecords == 3
\* Number of partitions the engine may spread the songplays rows over.
MaxPartitions == 2

\* ------------------------------------------------------------------ inputs
NULL == <<>>

\* Catalog records (the fields read at lines 50 and 60-64).
SongGob ==
    [song_id |-> "SOSKICX12A6D4F9F3E", title |-> "Face the Ashes",
     artist_id |-> "ARC1IHZ1187FB4E920", year |-> 2007, duration |-> 20960934,
     artist_name |-> "Gob", artist_location |-> NULL,
     artist_latitude |-> NULL, artist_longitude |-> NULL]

\* The same song_id as SongGob, another year.
SongGobYear0 == [SongGob EXCEPT !.year = 0]

\* Another song of the same artist_id, whose record spells the location.
SongGobOther ==
    [song_id |-> "SOUPIRU12A6D4FA1E1", title |-> "Der Kleine Dompfaff",
     artist_id |-> "ARC1IHZ1187FB4E920", year |-> 0, duration |-> 15292363,
     artist_name |-> "Gob", artist_location |-> <<"Vancouver">>,
     artist_latitude |-> <<"49.26044">>, artist_longitude |-> <<"-123.11403">>]

\* Another song of another artist with the same title, name and duration.
SongCover ==
    [song_id |-> "SOCOVER12A6D4F0001", title |-> "Face the Ashes",
     artist_id |-> "ARCOVER1187FB00001", year |-> 2010, duration |-> 20960934,
     artist_name |-> "Gob", artist_location |-> NULL,
     artist_latitude |-> NULL, artist_longitude |-> NULL]

SongCatalog == <<SongGob, SongGobYear0, SongGobOther, SongCover>>

\* Activity records (the fields read at lines 92-99, 108 and 143-157).
\* LogNeg names SongGobOther's title and artist with another length.
LogNeg ==
    [userId |-> "15", firstName |-> "Lily", lastName |-> "Koch", gender |-> "F",
     level |-> "free", page |-> "NextSong", ts |-> -1,
     song |-> <<"Der Kleine Dompfaff">>, artist |-> <<"Gob">>, length |-> <<15292400>>,
     sessionId |-> 172, location |-> "Chicago-Naperville-Elgin, IL-IN-WI",
     userAgent |-> "Mozilla/5.0"]

LogHome ==
    [userId |-> "15", firstName |-> "Lily", lastName |-> "Koch", gender |-> "F",
     level |-> "free", page |-> "Home", ts |-> 1830123,
     song |-> NULL, artist |-> NULL, length |-> NULL,
     sessionId |-> 818, location |-> "Chicago-Naperville-Elgin, IL-IN-WI",
     userAgent |-> "Mozilla/5.0"]

LogGob ==
    [userId |-> "15", firstName |-> "Lily", lastName |-> "Koch", gender |-> "F",
     level |-> "paid", page |-> "NextSong", ts |-> 1830796,
     song |-> <<"Face the Ashes">>, artist |-> <<"Gob">>, length |-> <<20960934>>,
     sessionId |-> 818, location |-> "Chicago-Naperville-Elgin, IL-IN-WI",
     userAgent |-> "Mozilla/5.0"]

LogGobLater ==
    [userId |-> "8", firstName |-> "Kaylee", lastName |-> "Summers", gender |-> "F",
     level |-> "free", page |-> "NextSong", ts |-> 1830999,
     song |-> <<"Face the Ashes">>, artist |-> <<"Gob">>, length |-> <<20960934>>,
     sessionId |-> 139, location |-> "Phoenix-Mesa-Scottsdale, AZ",
     userAgent |-> "Mozilla/5.0"]

LogCatalog == <<LogNeg, LogHome, LogGob, LogGobLater>>

\* The non-empty collections of at most n records drawn from a catalog,
\* each given as the sequence of its records' catalog indices.
Collections(cat, n) ==
    { s \in UNION { [1..k -> 1..Len(cat)] : k \in 1..n } :
        \A i \in 1..(Len(s) - 1) : s[i] <= s[i + 1] }

Records(cat, s) == [i \in 1..Len(s) |-> cat[s[i]]]

\* Offsets (seconds east of UTC) of the host's local time zone.
TzOffsets == {0, -21600}

\* --------------------------------------------------------- DataFrame steps
\* spark.read.json (lines 47, 89): one row per record.  The activity rows
\* carry the position of their record in the input (line), which no select
\* of the program reads.
ReadSongJson(data) == data

ReadLogJson(data) == [i \in 1..Len(data) |-> ("line" :> i) @@ data[i]]

\* DataFrame.distinct(): one row of each group of equal rows.
RECURSIVE Distinct(_)
Distinct(d) ==
    IF Len(d) = 0 THEN d
    ELSE LET front == Distinct(SubSeq(d, 1, Len(d) - 1))
             last == d[Len(d)]
         IN  IF \E i \in 1..Len(front) : front[i] = last
             THEN front
             ELSE Append(front, last)

\* Line 50: df.select('song_id', 'title', 'artist_id', 'year', 'duration').
SelectSongs(d) ==
    [i \in 1..Len(d) |->
        [song_id |-> d[i].song_id, title |-> d[i].title,
         artist_id |-> d[i].artist_id, year |-> d[i].year,
         duration |-> d[i].duration]]

\* Lines 50-52.
SongsTable(d) == Distinct(SelectSongs(d))

\* Lines 60-64.
SelectArtists(d) ==
    [i \in 1..Len(d) |->
        [artist_id |-> d[i].artist_id, name |-> d[i].artist_name,
         location |-> d[i].artist_location, latitude |-> d[i].artist_latitude,
         longitude |-> d[i].artist_longitude]]

\* Lines 60-66.
ArtistsTable(d) == Distinct(SelectArtists(d))

\* Line 92: df.filter(df.page == 'NextSong').
IsNextSong(r) == r.page = "NextSong"

FilterNothing(d) == d

FilterNextSong(d) == SelectSeq(d, IsNextSong)

\* Lines 95-99.
SelectUsers(d) ==
    [i \in 1..Len(d) |->
        [user_id |-> d[i].userId, first_name |-> d[i].firstName,
         last_name |-> d[i].lastName, gender |-> d[i].gender,
         level |-> d[i].level]]

\* One row of each group of rows with the same user_id.
RECURSIVE DistinctUserId(_)
DistinctUserId(d) ==
    IF Len(d) = 0 THEN d
    ELSE LET front == DistinctUserId(SubSeq(d, 1, Len(d) - 1))
             last == d[Len(d)]
         IN  IF \E i \in 1..Len(front) : front[i].user_id = last.user_id
             THEN front
             ELSE Append(front, last)

UsersTableByUserId(d) == DistinctUserId(SelectUsers(d))

\* Lines 95-101.
UsersTable(d) == Distinct(SelectUsers(d))

GetTimestampRounded(ts) == (ts + 500) \div 1000

\* Line 108: lambda ts: ts // 1000 (Python's floor division; \div floors).
GetTimestamp(ts) == ts \div 1000

\* Line 112: datetime.fromtimestamp(ts), the wall clock of the host's time
\* zone at the instant ts, as seconds since 1970-01-01 00:00 of that clock.
GetDatetime(ts, offset) == ts + offset

\* Lines 109 and 113: the two withColumn calls.
WithTimestamps(d, offset) ==
    [i \in 1..Len(d) |->
        ("datetime" :> GetDatetime(GetTimestamp(d[i].ts), offset))
            @@ [d[i] EXCEPT !.ts = GetTimestamp(@)]]

\* The calendar functions of lines 117-122 (proleptic Gregorian calendar).
DayNumber(dt) == dt \div 86400

Hour(dt) == (dt % 86400) \div 3600

\* 0 is Monday; 1970-01-01 was a Thursday.
DayOfWeek(dt) == (DayNumber(dt) + 3) % 7

WeekdayNames == <<"Mon", "Tue", "Wed", "Thu", "Fri", "Sat", "Sun">>

Weekday(dt) == WeekdayNames[DayOfWeek(dt) + 1]

\* The civil date [y, m, d] of a day number.
CivilFromDays(n) ==
    LET z == n + 719468
        era == z \div 146097
        doe == z - era * 146097
        yoe == (doe - doe \div 1460 + doe \div 36524 - doe \div 146096) \div 365
        doy == doe - (365 * yoe + yoe \div 4 - yoe \div 100)
        mp == (5 * doy + 2) \div 153
        d == doy - (153 * mp + 2) \div 5 + 1
        m == IF mp < 10 THEN mp + 3 ELSE mp - 9
    IN  [y |-> yoe + era * 400 + (IF m <= 2 THEN 1 ELSE 0), m |-> m, d |-> d]

\* The day number of 1 January of year y.
DaysOfJan1(y) ==
    LET yy == y - 1
        era == yy \div 400
        yoe == yy - era * 400
    IN  era * 146097 + yoe * 365 + yoe \div 4 - yoe \div 100 + 306 - 719468

Year(dt) == CivilFromDays(DayNumber(dt)).y

Month(dt) == CivilFromDays(DayNumber(dt)).m

DayOfMonth(dt) == CivilFromDays(DayNumber(dt)).d

\* ISO 8601 week: the week of the year that holds the Thursday of dt's week.
WeekOfYear(dt) ==
    LET thursday == DayNumber(dt) - DayOfWeek(dt) + 3
    IN  (thursday - DaysOfJan1(CivilFromDays(thursday).y)) \div 7 + 1

\* Lines 116-122.
SelectTime(d) ==
    [i \in 1..Len(d) |->
        [start_time |-> d[i].ts, hour |-> Hour(d[i].datetime),
         day |-> DayOfMonth(d[i].datetime), week |-> WeekOfYear(d[i].datetime),
         month |-> Month(d[i].datetime), year |-> Year(d[i].datetime),
         weekday |-> Weekday(d[i].datetime)]]

TimeTableNoDistinct(d) == SelectTime(d)

\* Lines 116-124.
TimeTable(d) == Distinct(SelectTime(d))

\* The pairs <<i, j>>, i in 1..n and j in 1..m, in row-major order.
Cross(n, m) == [k \in 1..(n * m) |-> <<((k - 1) \div m) + 1, ((k - 1) % m) + 1>>]

\* Lines 137-140: song_df.join(artist_df.select('artist_id',
\* col('name').alias('artist_name')), 'artist_id'), an inner equi-join.
JoinSongArtist(s, a) ==
    LET Same(p) == s[p[1]].artist_id = a[p[2]].artist_id
        pairs == SelectSeq(Cross(Len(s), Len(a)), Same)
    IN  [k \in 1..Len(pairs) |->
            ("artist_name" :> a[pairs[k][2]].name) @@ s[pairs[k][1]]]

JoinConditionsNoLength(r, s) ==
    /\ r.song = <<s.title>>
    /\ r.artist = <<s.artist_name>>

\* Lines 143-147.  SQL equality is not true of a null: an activity field
\* that is null ( <<>> ) equals no title, name or duration.
JoinConditions(r, s) ==
    /\ r.song = <<s.title>>
    /\ r.artist = <<s.artist_name>>
    /\ r.length = <<s.duration>>

\* Lines 148-149: df.join(song_df, conditions), as the pairs of row indices.
JoinLogSong(d, s) ==
    LET Match(p) == JoinConditions(d[p[1]], s[p[2]])
    IN  SelectSeq(Cross(Len(d), Len(s)), Match)

\* Line 163: monotonically_increasing_id() of row k when the rows are dealt
\* over parts partitions: the partition in the upper bits, the position in
\* the partition in the lower 33 bits; kept as the pair.
MonotonicallyIncreasingId(k, parts) ==
    [partition |-> (k - 1) % parts, offset |-> (k - 1) \div parts]

\* Lines 150-161: the select of the joined rows.
SelectSongplay(r, s) ==
    [start_time |-> r.ts, user_id |-> r.userId, level |-> r.level,
     song_id |-> s.song_id, artist_id |-> s.artist_id,
     session_id |-> r.sessionId, location |-> r.location,
     user_agent |-> r.userAgent, month |-> Month(r.datetime),
     year |-> Year(r.datetime)]

\* Lines 148-163.
SongplaysTable(d, s, parts) ==
    LET pairs == JoinLogSong(d, s)
    IN  [k \in 1..Len(pairs) |->
            ("songplays_id" :> MonotonicallyIncreasingId(k, parts))
                @@ SelectSongplay(d[pairs[k][1]], s[pairs[k][2]])]

\* The input line of each row of SongplaysTable(d, s, parts).
SongplaysOrigin(d, s) ==
    LET pairs == JoinLogSong(d, s)
    IN  [k \in 1..Len(pairs) |-> d[pairs[k][1]].line]

OverwriteAppend(old, new) == old \o new

\* write.mode('overwrite') (lines 55, 69, 104, 127, 166): the destination
\* holds the rows written and nothing else.
Overwrite(old, new) == new

\* ------------------------------------------------------------------- state
VARIABLES
    song_data,      \* the catalog records under input_data/song_data
    log_data,       \* the activity records under input_data/log_data
    tz,             \* the offset of the host's time zone
    pc,             \* the step main is about to take, "done" or "failed"
    store,          \* the rows under each destination of output_data
    exists,         \* the destinations that exist
    df,             \* the DataFrame df of the function being run
    song_df,        \* song_df of process_log_data (line 131)
    artist_df,      \* artist_df of process_log_data (line 134)
    origin,         \* for each songplays row written, its record's input line
    written,        \* the destinations this run has written
    history,        \* the steps this run has taken, and how each ended
    replaced        \* the destinations where a write of this run replaced
                    \* other rows

vars == <<song_data, log_data, tz, pc, store, exists, df, song_df, artist_df,
          origin, written, history, replaced>>

Tables == {"songs", "artists", "users", "time", "songplays"}

ProgramOrderLogFirst ==
    <<"read_log_data", "write_users", "write_time",
      "read_songs", "read_artists", "write_songplays",
      "read_song_data", "write_songs", "write_artists">>

\* The read and write steps in the order main runs them (lines 192-193,
\* and the statements of process_song_data and process_log_data in turn).
ProgramOrder ==
    <<"read_song_data", "write_songs", "write_artists",
      "read_log_data", "write_users", "write_time",
      "read_songs", "read_artists", "write_songplays">>

CatalogSteps == {"read_song_data", "write_songs", "write_artists"}

ActivitySteps ==
    {"read_log_data", "write_users", "write_time", "read_songs", "read_artists",
     "write_songplays"}

\* The step after step p: the next statement, and the return of main after
\* the last one.
NextPc(p) ==
    LET i == CHOOSE k \in 1..Len(ProgramOrder) : ProgramOrder[k] = p
    IN  IF i = Len(ProgramOrder) THEN "done" ELSE ProgramOrder[i + 1]

OnFailureRetry(p) == p

\* Where control goes when step p raises: no statement of lines 31-193
\* catches an exception, so it leaves main.
OnFailure(p) == "failed"

\* The inputs of a run.
Inputs ==
    { <<s, l>> \in Collections(SongCatalog, MaxRecords - 1)
                    \X Collections(LogCatalog, MaxRecords - 1) :
        Len(s) + Len(l) <= MaxRecords }

Init ==
    /\ \E in \in Inputs :
        /\ song_data = Records(SongCatalog, in[1])
        /\ log_data = Records(LogCatalog, in[2])
    /\ tz \in TzOffsets
    /\ pc = ProgramOrder[1]
    /\ store = [t \in Tables |-> <<>>]
    /\ exists = {}
    /\ df = <<>>
    /\ song_df = <<>>
    /\ artist_df = <<>>
    /\ origin = <<>>
    /\ written = {}
    /\ history = <<>>
    /\ replaced = {}

Took(p, how) == history' = Append(history, <<p, how>>)

\* Line 47.
ReadSongData ==
    /\ pc = "read_song_data"
    /\ df' = ReadSongJson(song_data)
    /\ pc' = NextPc(pc)
    /\ Took(pc, "ok")
    /\ UNCHANGED <<song_data, log_data, tz, store, exists, song_df, artist_df,
                   origin, written, replaced>>

\* A completed write of table t with the rows new.
Write(t, new) ==
    /\ store' = [store EXCEPT ![t] = Overwrite(@, new)]
    /\ exists' = exists \cup {t}
    /\ written' = written \cup {t}
    /\ replaced' = IF t \in exists /\ store[t] # <<>> /\ store[t] # new
                   THEN replaced \cup {t}
                   ELSE replaced

\* Lines 50-57.
WriteSongs ==
    /\ pc = "write_songs"
    /\ Write("songs", SongsTable(df))
    /\ pc' = NextPc(pc)
    /\ Took(pc, "ok")
    /\ UNCHANGED <<song_data, log_data, tz, df, song_df, artist_df, origin>>

\* Lines 60-70, and the return of process_song_data, which drops its df.
WriteArtists ==
    /\ pc = "write_artists"
    /\ Write("artists", ArtistsTable(df))
    /\ df' = <<>>
    /\ pc' = NextPc(pc)
    /\ Took(pc, "ok")
    /\ UNCHANGED <<song_data, log_data, tz, song_df, artist_df, origin>>

\* Lines 89-92.
ReadLogData ==
    /\ pc = "read_log_data"
    /\ df' = FilterNextSong(ReadLogJson(log_data))
    /\ pc' = NextPc(pc)
    /\ Took(pc, "ok")
    /\ UNCHANGED <<song_data, log_data, tz, store, exists, song_df, artist_df,
                   origin, written, replaced>>

\* Lines 95-105.
WriteUsers ==
    /\ pc = "write_users"
    /\ Write("users", UsersTable(df))
    /\ pc' = NextPc(pc)
    /\ Took(pc, "ok")
    /\ UNCHANGED <<song_data, log_data, tz, df, song_df, artist_df, origin>>

\* Lines 108-128.
WriteTime ==
    /\ pc = "write_time"
    /\ df' = WithTimestamps(df, tz)
    /\ Write("time", TimeTable(df'))
    /\ pc' = NextPc(pc)
    /\ Took(pc, "ok")
    /\ UNCHANGED <<song_data, log_data, tz, song_df, artist_df, origin>>

\* Line 131: the rows under output_data/songs, if the destination exists.
ReadSongs ==
    /\ pc = "read_songs"
    /\ "songs" \in exists
    /\ song_df' = store["songs"]
    /\ pc' = NextPc(pc)
    /\ Took(pc, "ok")
    /\ UNCHANGED <<song_data, log_data, tz, store, exists, df, artist_df,
                   origin, written, replaced>>

\* Line 134.
ReadArtists ==
    /\ pc = "read_artists"
    /\ "artists" \in exists
    /\ artist_df' = store["artists"]
    /\ pc' = NextPc(pc)
    /\ Took(pc, "ok")
    /\ UNCHANGED <<song_data, log_data, tz, store, exists, df, song_df,
                   origin, written, replaced>>

\* Lines 137-168, and the return of process_log_data and of main.
WriteSongplays ==
    /\ pc = "write_songplays"
    /\ song_df' = JoinSongArtist(song_df, artist_df)
    /\ \E parts \in 1..MaxPartitions :
        Write("songplays", SongplaysTable(df, song_df', parts))
    /\ origin' = SongplaysOrigin(df, song_df')
    /\ pc' = NextPc(pc)
    /\ Took(pc, "ok")
    /\ UNCHANGED <<song_data, log_data, tz, df, artist_df>>

WriteSteps ==
    {"write_songs", "write_artists", "write_users", "write_time", "write_songplays"}

TableOf(p) ==
    CASE p = "write_songs" -> "songs"
      [] p = "write_artists" -> "artists"
      [] p = "write_users" -> "users"
      [] p = "write_time" -> "time"
      [] p = "write_songplays" -> "songplays"

\* Any read or write may raise (an unreadable source, an unwritable
\* destination, a destination that does not exist).  A write that raises
\* leaves its destination as it was or, having cleared it for the
\* overwrite, as a destination without rows.
Fail ==
    /\ pc \in ActivitySteps \cup CatalogSteps
    /\ pc' = OnFailure(pc)
    /\ Took(pc, "raised")
    /\ \/ UNCHANGED <<store, exists>>
       \/ /\ pc \in WriteSteps
          /\ store' = [store EXCEPT ![TableOf(pc)] = <<>>]
          /\ exists' = exists \cup {TableOf(pc)}
    /\ UNCHANGED <<song_data, log_data, tz, df, song_df, artist_df, origin,
                   written, replaced>>

Next ==
    \/ ReadSongData
    \/ WriteSongs
    \/ WriteArtists
    \/ ReadLogData
    \/ WriteUsers
    \/ WriteTime
    \/ ReadSongs
    \/ ReadArtists
    \/ WriteSongplays
    \/ Fail

Spec == Init /\ [][Next]_vars

\* The job run again, on other inputs, after a run that succeeded: the
\* destinations keep what that run wrote.
StartRun ==
    /\ pc = "done"
    /\ \E in \in Inputs :
        /\ song_data' = Records(SongCatalog, in[1])
        /\ log_data' = Records(LogCatalog, in[2])
    /\ pc' = ProgramOrder[1]
    /\ df' = <<>>
    /\ song_df' = <<>>
    /\ artist_df' = <<>>
    /\ origin' = <<>>
    /\ written' = {}
    /\ history' = <<>>
    /\ replaced' = {}
    /\ UNCHANGED <<tz, store, exists>>

NextRuns == Next \/ StartRun

\* The runs of one host, whose clock is UTC.
InitRuns == Init /\ tz = 0

SpecRuns == InitRuns /\ [][NextRuns]_vars

\* ------------------------------------------------------------- properties
Rows(d) == {d[i] : i \in 1..Len(d)}

NoDuplicateRow(d) == \A i, j \in 1..Len(d) : d[i] = d[j] => i = j

\* The input lines of the activity records whose page is "NextSong".
Retained == {i \in 1..Len(log_data) : log_data[i].page = "NextSong"}

\* The songplays rows written for the record of input line i.
RowsOf(i) == {k \in 1..Len(origin) : origin[k] = i}

UserRow(r) ==
    [user_id |-> r.userId, first_name |-> r.firstName, last_name |-> r.lastName,
     gender |-> r.gender, level |-> r.level]

\* q is ts / 1000 rounded toward minus infinity.
IsFloorOfMillis(q, ts) == 1000 * q <= ts /\ ts < 1000 * (q + 1)

\* ts / 1000 rounded toward zero.
TruncatedSeconds(ts) == IF ts >= 0 THEN ts \div 1000 ELSE -((-ts) \div 1000)

\* The history of a run whose first n steps succeeded.
OkPrefix(n) == [i \in 1..n |-> <<ProgramOrder[i], "ok">>]

\* The destinations written by the first n steps.
WrittenBy(n) == {TableOf(ProgramOrder[i]) : i \in {k \in 1..n : ProgramOrder[k] \in WriteSteps}}

\* C1: no step of process_log_data is taken before this run has written
\* songs and artists, and the song and artist rows process_log_data joins
\* are the rows it read from the two destinations, which are the rows this
\* run derived from its own catalog records.
C1_CatalogCommittedThenReadBack ==
    /\ \A i \in 1..Len(history) :
          history[i][1] \in ActivitySteps =>
              /\ \E j \in 1..(i - 1) : history[j] = <<"write_songs", "ok">>
              /\ \E j \in 1..(i - 1) : history[j] = <<"write_artists", "ok">>
    /\ pc \in ActivitySteps => {"songs", "artists"} \subseteq written
    /\ pc \in {"read_artists", "write_songplays"} =>
          /\ song_df = store["songs"]
          /\ Rows(song_df) = Rows(SelectSongs(song_data))
    /\ pc = "write_songplays" =>
          /\ artist_df = store["artists"]
          /\ Rows(artist_df) = Rows(SelectArtists(song_data))

\* C1 witness: a later run is about to join, and the songs destination held
\* other rows when it started.
C1_Witness ==
    /\ pc = "write_songplays"
    /\ "songs" \in replaced
    /\ Len(song_df) > 0
    /\ Len(df) > 0

\* C2: the songs written have pairwise distinct song_id and the artists
\* written have pairwise distinct artist_id.
C2_UniqueIds ==
    /\ "songs" \in written =>
          \A i, j \in 1..Len(store["songs"]) :
              store["songs"][i].song_id = store["songs"][j].song_id => i = j
    /\ "artists" \in written =>
          \A i, j \in 1..Len(store["artists"]) :
              store["artists"][i].artist_id = store["artists"][j].artist_id => i = j

\* The song_id of the songs written whose title, artist name and duration
\* are those of activity record r.
MatchingSongs(r) ==
    {s.song_id : s \in
        {x \in Rows(store["songs"]) :
            /\ r.song = <<x.title>>
            /\ r.length = <<x.duration>>
            /\ \E a \in Rows(store["artists"]) :
                  a.artist_id = x.artist_id /\ r.artist = <<a.name>>}}

\* C3: after a run that succeeded, every retained record has as many
\* songplays rows as there are songs matching it.
C3_RowsPerRecord ==
    pc = "done" =>
        \A i \in Retained :
            Cardinality(RowsOf(i)) = Cardinality(MatchingSongs(log_data[i]))

\* C4: every songplays row written comes from a song row and an artist row
\* of the same artist_id whose title, name and duration are the song, artist
\* and length of the row's record, and carries their song_id and artist_id.
C4_JoinSound ==
    "songplays" \in written =>
        \A k \in 1..Len(store["songplays"]) :
            LET row == store["songplays"][k]
                r == log_data[origin[k]]
            IN  \E s \in Rows(store["songs"]), a \in Rows(store["artists"]) :
                    /\ a.artist_id = s.artist_id
                    /\ r.song = <<s.title>>
                    /\ r.artist = <<a.name>>
                    /\ r.length = <<s.duration>>
                    /\ row.song_id = s.song_id
                    /\ row.artist_id = a.artist_id

\* C4 witness: songplays rows were written while a retained record matched
\* no song.
C4_Witness ==
    /\ pc = "done"
    /\ Len(store["songplays"]) > 0
    /\ \E i \in Retained : RowsOf(i) = {}

\* C5: every row of users, time and songplays written comes from a record
\* whose page is "NextSong".
C5_FilterCorrect ==
    /\ "users" \in written =>
          \A u \in Rows(store["users"]) :
              \E i \in Retained : u = UserRow(log_data[i])
    /\ "time" \in written =>
          \A t \in Rows(store["time"]) :
              \E i \in Retained : IsFloorOfMillis(t.start_time, log_data[i].ts)
    /\ "songplays" \in written =>
          \A k \in 1..Len(origin) : origin[k] \in Retained

\* C5 witness: a run that succeeded on records of both kinds.
C5_Witness ==
    /\ pc = "done"
    /\ Retained # {}
    /\ Retained # 1..Len(log_data)
    /\ Len(store["songplays"]) > 0

\* C6 as claimed: start_time is ts / 1000 rounded toward zero.
C6_StartTimeTruncates ==
    /\ "time" \in written =>
          {t.start_time : t \in Rows(store["time"])}
              = {TruncatedSeconds(log_data[i].ts) : i \in Retained}
    /\ "songplays" \in written =>
          \A k \in 1..Len(store["songplays"]) :
              store["songplays"][k].start_time
                  = TruncatedSeconds(log_data[origin[k]].ts)

\* C6 amended: start_time is ts / 1000 rounded toward minus infinity: every
\* retained record has its time row, every time row its record, and every
\* songplays row the start_time of its record.
C6_StartTimeFloors ==
    /\ "time" \in written =>
          /\ \A i \in Retained : \E t \in Rows(store["time"]) :
                IsFloorOfMillis(t.start_time, log_data[i].ts)
          /\ \A t \in Rows(store["time"]) : \E i \in Retained :
                IsFloorOfMillis(t.start_time, log_data[i].ts)
    /\ "songplays" \in written =>
          \A k \in 1..Len(store["songplays"]) :
              IsFloorOfMillis(store["songplays"][k].start_time,
                              log_data[origin[k]].ts)

\* C6 witness: a run that succeeded on a negative timestamp and on one
\* whose milliseconds would round up, with a songplays row.
C6_Witness ==
    /\ pc = "done"
    /\ \E i \in Retained : log_data[i].ts < 0
    /\ \E k \in 1..Len(origin) : log_data[origin[k]].ts % 1000 >= 500

\* C7: the time rows written have pairwise distinct start_time, one for each
\* second in which a retained record falls.
C7_TimeUnique ==
    "time" \in written =>
        /\ \A i, j \in 1..Len(store["time"]) :
              store["time"][i].start_time = store["time"][j].start_time => i = j
        /\ \A i \in Retained : \E t \in Rows(store["time"]) :
              IsFloorOfMillis(t.start_time, log_data[i].ts)
        /\ \A t \in Rows(store["time"]) : \E i \in Retained :
              IsFloorOfMillis(t.start_time, log_data[i].ts)

\* C7 witness: two retained records with different timestamps in the same
\* second, and the one time row written for them.
C7_Witness ==
    /\ "time" \in written
    /\ Len(store["time"]) = 1
    /\ \E i, j \in Retained : log_data[i].ts # log_data[j].ts

\* C8: a run takes the steps in program order, each once; it ends after the
\* last step with the five tables written, or at the first step that raises,
\* after which no step is taken and only the tables of the steps before it
\* are written.
C8_SucceedsOrStopsAtFirstFailure ==
    /\ pc = "done" =>
          /\ history = OkPrefix(Len(ProgramOrder))
          /\ written = Tables
    /\ pc = "failed" =>
          /\ Len(history) \in 1..Len(ProgramOrder)
          /\ SubSeq(history, 1, Len(history) - 1) = OkPrefix(Len(history) - 1)
          /\ history[Len(history)] = <<ProgramOrder[Len(history)], "raised">>
          /\ written = WrittenBy(Len(history) - 1)
          /\ ~ ENABLED Next
    /\ pc \notin {"done", "failed"} =>
          /\ Len(history) < Len(ProgramOrder)
          /\ history = OkPrefix(Len(history))
          /\ pc = ProgramOrder[Len(history) + 1]
          /\ written = WrittenBy(Len(history))

\* C8 witness: the write of time raised; songs, artists and users are
\* written, time and songplays are not.
C8_Witness ==
    /\ pc = "failed"
    /\ history[Len(history)] = <<"write_time", "raised">>
    /\ written = {"songs", "artists", "users"}

WithoutId(row) == [f \in DOMAIN row \ {"songplays_id"} |-> row[f]]

\* The songplays rows, less their songplays_id, of activity rows d joined
\* to the song rows s and artist rows a.
ExpectedSongplays(d, s, a) ==
    {SelectSongplay(r, x) : <<r, x>> \in
        {<<r, x>> \in Rows(d) \X Rows(s) :
            /\ r.song = <<x.title>>
            /\ r.length = <<x.duration>>
            /\ \E y \in Rows(a) : y.artist_id = x.artist_id /\ r.artist = <<y.name>>}}

\* C9: after a run that succeeded, whatever the destinations held before,
\* each destination holds the rows derived from this run's inputs and no
\* other row.
C9_OnlyLastRun ==
    pc = "done" =>
        LET d == WithTimestamps(FilterNextSong(ReadLogJson(log_data)), tz)
        IN  /\ Rows(store["songs"]) = Rows(SelectSongs(song_data))
            /\ NoDuplicateRow(store["songs"])
            /\ Rows(store["artists"]) = Rows(SelectArtists(song_data))
            /\ NoDuplicateRow(store["artists"])
            /\ Rows(store["users"]) = {UserRow(log_data[i]) : i \in Retained}
            /\ NoDuplicateRow(store["users"])
            /\ Rows(store["time"]) = Rows(SelectTime(d))
            /\ NoDuplicateRow(store["time"])
            /\ {WithoutId(row) : row \in Rows(store["songplays"])}
                  = ExpectedSongplays(d, store["songs"], store["artists"])
            /\ \A i \in 1..Len(log_data) : i \notin Retained => RowsOf(i) = {}
            /\ Len(store["songplays"]) = Len(origin)
            /\ Len(store["songplays"])
                  = Cardinality({t \in (1..Len(d)) \X (1..Len(store["songs"]))
                                        \X (1..Len(store["artists"])) :
                        /\ d[t[1]].song = <<store["songs"][t[2]].title>>
                        /\ d[t[1]].length = <<store["songs"][t[2]].duration>>
                        /\ store["artists"][t[3]].artist_id
                              = store["songs"][t[2]].artist_id
                        /\ d[t[1]].artist = <<store["artists"][t[3]].name>>})
            /\ NoDuplicateRow(store["songplays"])

\* C9 witness: a later run succeeded, and each of its five writes replaced
\* other rows.
C9_Witness ==
    /\ pc = "done"
    /\ replaced = Tables

\* C10: after a run that succeeded, every songplays row has its start_time
\* in time, its user_id and level in a row of users, its song_id in songs
\* and its artist_id in artists.
C10_ReferentiallyClosed ==
    pc = "done" =>
        \A row \in Rows(store["songplays"]) :
            /\ \E t \in Rows(store["time"]) : t.start_time = row.start_time
            /\ \E u \in Rows(store["users"]) :
                  u.user_id = row.user_id /\ u.level = row.level
            /\ \E s \in Rows(store["songs"]) : s.song_id = row.song_id
            /\ \E a \in Rows(store["artists"]) : a.artist_id = row.artist_id

\* C10 witness: a run that succeeded wrote songplays rows for a user whose
\* level differs between retained records.
C10_Witness ==
    /\ pc = "done"
    /\ Len(store["songplays"]) > 0
    /\ \E i, j \in Retained :
          /\ log_data[i].userId = log_data[j].userId
          /\ log_data[i].level # log_data[j].level
          /\ RowsOf(j) # {}

====
